---- MODULE Spec2Model ----
(***************************************************************************)
(* Model of the utilization tracker daemon: the Sampler                    *)
(* (src/src/collector.py, MetricsCollector), the Storage Engine            *)
(* (src/src/database.py, MetricsDatabase) and the Scheduler                *)
(* (src/src/tracker.py, UtilizationTracker).                               *)
(*                                                                         *)
(* Time is an integer number of seconds since midnight of day 0.  A        *)
(* timestamp text is modelled as the sequence of its fixed-width fields,   *)
(* <<date, separator character code, second of the day>>; SQLite compares  *)
(* TEXT values byte by byte, which on fixed-width zero-padded fields is    *)
(* the lexicographic order of these sequences.                             *)
(***************************************************************************)
EXTENDS Integers, Sequences, FiniteSets, TLC

(* ----------------------------- bounds ---------------------------------- *)
MaxTicks == 2          \* ticks of one run of the scheduler
MaxSignals == 1        \* termination signals delivered to one run
LongStep == 89999      \* seconds taken by a stalled host or storage call
LongInterval == 90000  \* a configured collection_interval above one day
MaxGpus == 2            \* GPUs of the host
MaxBatch == 2          \* longest list handed to a batch insert
MaxRows == 3           \* rows inserted in the storage-only specification
MaxDbNow == 172800     \* clock limit of the storage-only specification
DbClockStep == 57600   \* clock advance of the storage-only specification
ShortRetention == 1    \* a small configured retention_days

(* -------------------------- program constants -------------------------- *)
SecondsPerDay == 86400
SepT == 84
SepSpace == 32
DefaultRetention == 30
DefaultInterval == 60
cleanup_interval == 86400

\* an optional value: absent (Python's None) or present
None == <<>>
Some(v) == <<v>>

Tables == <<"system_metrics", "disk_metrics", "temperature_metrics">>
TableSet == {Tables[i] : i \in 1..Len(Tables)}

VARIABLES
    now,        \* the host clock (time.time() / datetime.now())
    conn,       \* MetricsDatabase.conn: "none" (None), "open", "closed"
    schema,     \* the tables and indexes that exist in the store file
    committed,  \* durable contents of the store, per table
    pending,    \* contents as seen through the connection (open transaction)
    dbRet,      \* how the last Storage Engine call ended
    dbValue,    \* the value the last Storage Engine call returned
    dbOp,       \* the last Storage Engine call and its arguments
    pc,         \* position of the process in UtilizationTracker.run
    running,    \* UtilizationTracker.running
    config,     \* the validated configuration
    start_time, \* run(): start of the current tick
    last_cleanup, \* run(): time the last cleanup finished (or loop entry)
    elapsed,    \* run(): work time of the current tick
    sleep_time, \* run(): computed sleep of the current tick
    warned,     \* the overrun warning was logged in the current tick
    tickErr,    \* _collect_and_store logged an error in the current tick
    tickCount,  \* run(): collection_count
    called,     \* Sampler and Storage Engine calls made in the current tick
    signals,    \* number of termination signals delivered
    hist,       \* history of the run: loop entry time, time of the last
                \* sweep invocation, number of sweeps, errors and warnings,
                \* position at which the first signal arrived
    nvidia_initialized, \* MetricsCollector.nvidia_initialized
    gpu_count,  \* MetricsCollector.gpu_count
    nvml,       \* the GPU library: whether pynvml imports, the number of
                \* nvmlInit calls made so far, and the number of GPUs
                \* queried by the last collect_gpu_metrics
    samplerOp,  \* the last Sampler call driven directly, and its result
    heap,       \* the nested dicts created by the body of class Config, by
                \* the key under which DEFAULT_CONFIG refers to them
    instance    \* the Config constructed last: its file and its self.config

dbVars == <<conn, schema, committed, pending, dbRet, dbValue, dbOp>>
smVars == <<nvidia_initialized, gpu_count, nvml, samplerOp>>
cfVars == <<heap, instance>>
trVars == <<pc, running, config, start_time, last_cleanup, elapsed,
            sleep_time, warned, tickErr, tickCount, called, signals, hist>>

(* ------------------------- timestamp texts ----------------------------- *)
\* datetime.isoformat(): 'YYYY-MM-DDTHH:MM:SS'
isoformat(t) == <<t \div SecondsPerDay, SepT, t % SecondsPerDay>>

\* sqlite3's default adapter for a datetime parameter: isoformat(" ")
adapt_datetime(t) == <<t \div SecondsPerDay, SepSpace, t % SecondsPerDay>>

\* the instant a timestamp text denotes
Instant(txt) == txt[1] * SecondsPerDay + txt[3]

\* SQLite's BINARY collation on TEXT: a < b
TextLess(a, b) ==
    \E i \in 1..Len(a) :
        /\ i <= Len(b)
        /\ a[i] < b[i]
        /\ \A j \in 1..(i - 1) : a[j] = b[j]

(* ------------------------- tables and rows ----------------------------- *)
EmptyTable == [rows |-> <<>>, seq |-> 0]
EmptyStore == [t \in TableSet |-> EmptyTable]

\* the columns declared without NOT NULL
NullableColumns(table) ==
    CASE table = "system_metrics" -> {"load_avg_1"}
      [] table = "disk_metrics" -> {}
      [] table = "temperature_metrics" -> {"high", "critical"}

\* a Python parameter bound to a nullable column: None is stored as NULL
BindParam(v) ==
    IF v = None THEN [null |-> TRUE, v |-> 0] ELSE [null |-> FALSE, v |-> v[1]]

FetchCell_NullAsZero(c) == Some(c.v)

\* a cell read by a SELECT: NULL comes back as None
FetchCell(c) == IF c.null THEN None ELSE Some(c.v)

\* the record a SELECT returns for a row written from sample: the other
\* columns hold the bound number or text as it was given
ReadBack(table, sample) ==
    [f \in DOMAIN sample |->
        IF f \in NullableColumns(table) THEN FetchCell(BindParam(sample[f]))
        ELSE sample[f]]

\* one INSERT statement: AUTOINCREMENT takes the next id of the table
RECURSIVE MaxId(_)
MaxId(rows) ==
    IF rows = <<>> THEN 0
    ELSE LET m == MaxId(Tail(rows))
         IN  IF Head(rows).id > m THEN Head(rows).id ELSE m

NextId_MaxPlusOne(tbl) == MaxId(tbl.rows) + 1

\* id INTEGER PRIMARY KEY AUTOINCREMENT: one more than the largest id the
\* table has held, which SQLite keeps in sqlite_sequence inside the
\* transaction
NextId(tbl) == tbl.seq + 1

ExecInsert(view, table, sample) ==
    [view EXCEPT ![table] =
        [rows |-> Append(@.rows, [id |-> NextId(@),
                                  sample |-> ReadBack(table, sample)]),
         seq  |-> NextId(@)]]

RECURSIVE ExecInserts(_, _, _)
ExecInserts(view, table, batch) ==
    IF batch = <<>> THEN view
    ELSE ExecInserts(ExecInsert(view, table, Head(batch)), table, Tail(batch))

\* DELETE FROM table WHERE timestamp < cutoff (cutoff bound as a parameter)
ExecDelete(view, table, cutoff) ==
    [view EXCEPT ![table] =
        [rows |-> SelectSeq(@.rows,
                     LAMBDA r : ~TextLess(r.sample.timestamp, cutoff)),
         seq  |-> @.seq]]

RECURSIVE ExecDeletes(_, _, _)
ExecDeletes(view, n, cutoff) ==
    IF n = 0 THEN view
    ELSE ExecDelete(ExecDeletes(view, n - 1, cutoff), Tables[n], cutoff)

(* ------------------------------ Sampler -------------------------------- *)
CpuSampleSeconds == 1
LoopDevices == {"/dev/loop0"}

Returned(v) == [raised |-> FALSE, value |-> v]
Raised == [raised |-> TRUE, value |-> None]

\* host states read by collect_system_metrics
SystemHosts ==
    [cpu_ok : BOOLEAN, mem_ok : BOOLEAN, loadavg_ok : BOOLEAN,
     cpu_percent : {7}, load_avg_1 : {1}]

\* psutil.cpu_percent(interval=1) blocks for the sampling interval before
\* the timestamp is taken
collect_system_metrics(host, t) ==
    IF ~host.cpu_ok \/ ~host.mem_ok THEN Raised
    ELSE Returned([timestamp   |-> isoformat(t + CpuSampleSeconds),
                   cpu_percent |-> host.cpu_percent,
                   load_avg_1  |-> IF host.loadavg_ok THEN Some(host.load_avg_1) ELSE None])

Skipped_PseudoOnly(partition) == partition.fstype = ""

\* if partition.fstype == '' or 'loop' in partition.device: continue
Skipped(partition) ==
    partition.fstype = "" \/ partition.device \in LoopDevices

\* one partition: the usage query succeeds, is denied or fails otherwise
RECURSIVE DiskLoop(_, _)
DiskLoop(partitions, timestamp) ==
    IF partitions = <<>> THEN <<>>
    ELSE LET partition == Head(partitions)
             rest == DiskLoop(Tail(partitions), timestamp)
         IN  IF Skipped(partition)
             THEN rest
             ELSE IF partition.usage # "ok" THEN rest
             ELSE <<[timestamp  |-> timestamp,
                     device     |-> partition.device,
                     mountpoint |-> partition.mountpoint,
                     total      |-> partition.total,
                     percent    |-> partition.percent]>> \o rest

collect_disk_metrics(host, t) ==
    IF ~host.enum_ok THEN Raised
    ELSE Returned(DiskLoop(host.partitions, isoformat(t)))

\* Python truth value of an optional number: None and 0.0 are false
Falsy(v) == v = None \/ v = Some(0)

RECURSIVE TempLoop(_, _)
TempLoop(entries, timestamp) ==
    IF entries = <<>> THEN <<>>
    ELSE LET entry == Head(entries)
         IN  <<[timestamp   |-> timestamp,
                sensor_name |-> entry.sensor_name,
                label       |-> IF entry.label = "" THEN "unknown" ELSE entry.label,
                current     |-> entry.current,
                high        |-> IF Falsy(entry.high) THEN None ELSE entry.high,
                critical    |-> IF Falsy(entry.critical) THEN None
                                ELSE entry.critical]>>
             \o TempLoop(Tail(entries), timestamp)

\* host.status is "unsupported" (AttributeError), "error" (any other
\* exception of psutil.sensors_temperatures) or "ok" with the entries
collect_temperature_metrics(host, t) ==
    IF host.status # "ok" THEN Returned(<<>>)
    ELSE Returned(TempLoop(host.entries, isoformat(t)))

\* an optional per-GPU query wrapped in its own try/except
OptionalQuery(q) == IF q.ok THEN Some(q.v) ELSE None

MilliwattsPerWatt == 1000

\* try: power = nvmlDeviceGetPowerUsage(handle) / 1000.0 -- milliwatts to
\* watts; except: power = None.  The same for the power limit.
PowerQuery(q) == IF q.ok THEN Some(q.v \div MilliwattsPerWatt) ELSE None

\* the for loop over range(gpu_count) sits inside one try block: the first
\* GPU whose mandatory query fails ends the loop
RECURSIVE GpuLoop(_, _, _)
GpuLoop(gpus, i, timestamp) ==
    IF gpus = <<>> THEN <<>>
    ELSE LET gpu == Head(gpus)
         IN  IF ~gpu.mandatory_ok THEN <<>>
             ELSE <<[timestamp   |-> timestamp,
                     gpu_index   |-> i,
                     gpu_utilization |-> gpu.utilization,
                     temperature |-> OptionalQuery(gpu.temperature),
                     power_draw  |-> PowerQuery(gpu.power_draw),
                     power_limit |-> PowerQuery(gpu.power_limit),
                     fan_speed   |-> OptionalQuery(gpu.fan_speed)]>>
                  \o GpuLoop(Tail(gpus), i + 1, timestamp)

collect_gpu_metrics_Unguarded(initialized, host, t) ==
    Returned(GpuLoop(host.gpus, 0, isoformat(t)))

\* if self.nvidia_initialized: the loop; otherwise the empty list
collect_gpu_metrics(initialized, host, t) ==
    IF initialized
    THEN Returned(GpuLoop(host.gpus, 0, isoformat(t)))
    ELSE Returned(<<>>)

\* the GPUs whose handle is asked for by the loop: all up to and including
\* the first whose mandatory query fails
RECURSIVE GpusVisited(_)
GpusVisited(gpus) ==
    IF gpus = <<>> THEN 0
    ELSE IF ~Head(gpus).mandatory_ok THEN 1
    ELSE 1 + GpusVisited(Tail(gpus))

\* the NVML traffic of one collect_gpu_metrics: no nvmlInit, and device
\* queries only behind the nvidia_initialized test
NvmlAfterCollect(lib, initialized, host) ==
    [lib EXCEPT !.query = IF initialized THEN GpusVisited(host.gpus) ELSE 0]

(* -------------------------- Storage Engine ----------------------------- *)
\* A storage failure injected into a call: at = 0 is no failure, at = k is
\* a sqlite3.Error at the k-th statement of the call (the commit counts as
\* the statement after the last); keep tells whether SQLite leaves the
\* transaction open (statement-level failure such as a constraint
\* violation) or rolls it back by itself (e.g. disk full).
NoFail == [at |-> 0, keep |-> TRUE]
Fails(n) == {NoFail} \cup [at : 1..n, keep : BOOLEAN]

DbOf(c, cm, pd) == [conn |-> c, committed |-> cm, pending |-> pd]

\* the tables and indexes of _create_tables, in the order of creation
SchemaObjects ==
    <<"system_metrics", "idx_timestamp", "disk_metrics", "idx_disk_timestamp",
      "temperature_metrics", "idx_temp_timestamp">>

CreateIfNotExists_Always(objs, name) == Append(objs, name)

\* CREATE TABLE / CREATE INDEX ... IF NOT EXISTS
CreateIfNotExists(objs, name) ==
    IF \E i \in 1..Len(objs) : objs[i] = name THEN objs
    ELSE Append(objs, name)

\* _create_tables: the first n statements
RECURSIVE create_tables(_, _)
create_tables(objs, n) ==
    IF n = 0 THEN objs
    ELSE CreateIfNotExists(create_tables(objs, n - 1), SchemaObjects[n])

\* sqlite3.connect(db_path) and _create_tables; except sqlite3.Error: log
\* and re-raise
connect(db, objs, ok) ==
    IF ok THEN [db |-> DbOf("open", db.committed, db.committed), ret |-> "ok",
                value |-> None,
                schema |-> create_tables(objs, Len(SchemaObjects))]
    ELSE [db |-> db, ret |-> "raised", value |-> None, schema |-> objs]

\* the body shared by the three insert methods: execute per row, one
\* commit after the loop, except sqlite3.Error: log and re-raise
InsertCall(db, table, batch, fail) ==
    IF db.conn # "open" THEN [db |-> db, ret |-> "raised", value |-> None]
    ELSE IF fail.at = 0
    THEN LET v == ExecInserts(db.pending, table, batch)
         IN  [db |-> DbOf(db.conn, v, v), ret |-> "ok", value |-> None]
    ELSE LET done == ExecInserts(db.pending, table,
                                 SubSeq(batch, 1, fail.at - 1))
         IN  [db |-> DbOf(db.conn, db.committed,
                          IF fail.keep THEN done ELSE db.committed),
              ret |-> "raised", value |-> None]

insert_system_metrics(db, metrics, fail) ==
    InsertCall(db, "system_metrics", <<metrics>>, fail)

insert_disk_metrics(db, metrics_list, fail) ==
    InsertCall(db, "disk_metrics", metrics_list, fail)

insert_temperature_metrics(db, metrics_list, fail) ==
    InsertCall(db, "temperature_metrics", metrics_list, fail)

cutoff_date_InSeconds(t, retention_days) == t - retention_days

\* cutoff_date = datetime.now() - timedelta(days=retention_days), bound to
\* the DELETE statements as a datetime parameter
cutoff_date(t, retention_days) == t - retention_days * SecondsPerDay

\* three DELETEs, one commit; except sqlite3.Error: log only.  With conn
\* None the AttributeError is not a sqlite3.Error and escapes.  The row
\* counts of the DELETEs go to the log; the method has no return statement.
cleanup_old_data(db, retention_days, t, fail) ==
    IF db.conn = "none" THEN [db |-> db, ret |-> "raised", value |-> None]
    ELSE IF db.conn = "closed"
    THEN [db |-> db, ret |-> "swallowed", value |-> None]
    ELSE LET cutoff == adapt_datetime(cutoff_date(t, retention_days))
         IN  IF fail.at = 0
             THEN LET v == ExecDeletes(db.pending, 3, cutoff)
                  IN  [db |-> DbOf(db.conn, v, v), ret |-> "ok",
                       value |-> None]
             ELSE LET done == ExecDeletes(db.pending, fail.at - 1, cutoff)
                  IN  [db |-> DbOf(db.conn, db.committed,
                                   IF fail.keep THEN done ELSE db.committed),
                       ret |-> "swallowed", value |-> None]

close_Unguarded(db) ==
    IF db.conn = "none" THEN [db |-> db, ret |-> "raised", value |-> None]
    ELSE [db |-> DbOf("closed", db.committed, db.committed), ret |-> "ok",
          value |-> None]

\* if self.conn: self.conn.close() -- an open transaction is rolled back;
\* closing a closed sqlite3 connection does nothing
close(db) ==
    IF db.conn = "open"
    THEN [db |-> DbOf("closed", db.committed, db.committed), ret |-> "ok",
          value |-> None]
    ELSE [db |-> db, ret |-> "ok", value |-> None]

(* --------------------- inputs of the specifications -------------------- *)
SdaOk == [device |-> "/dev/sda1", fstype |-> "ext4", mountpoint |-> "/",
          usage |-> "ok", total |-> 1073741824, percent |-> 42]
SdbOk == [device |-> "/dev/sdb1", fstype |-> "ext4", mountpoint |-> "/data",
          usage |-> "ok", total |-> 1073741824, percent |-> 10]

DbDiskBatches(t) ==
    {DiskLoop(ps, isoformat(t)) : ps \in {<<>>, <<SdaOk>>, <<SdaOk, SdbOk>>}}

CoreTemp == [sensor_name |-> "coretemp", label |-> "Core 0",
             current |-> 50, high |-> Some(80), critical |-> None]
AcpiTemp == [sensor_name |-> "acpitz", label |-> "",
             current |-> 30, high |-> Some(0), critical |-> Some(100)]

DbTempBatches(t) ==
    {TempLoop(es, isoformat(t)) : es \in {<<CoreTemp>>, <<CoreTemp, AcpiTemp>>}}

DbSystemSamples(t) ==
    {collect_system_metrics(h, t).value :
        h \in {h \in SystemHosts : h.cpu_ok /\ h.mem_ok /\ h.loadavg_ok}}

RetentionChoices == {ShortRetention, DefaultRetention}

(* --------------- Storage Engine driven call by call -------------------- *)
TheDb == DbOf(conn, committed, pending)

Call(name, arg, fail) ==
    [name |-> name, arg |-> arg, fail |-> fail, at |-> now, before |-> pending]

SetStore(r) ==
    /\ conn' = r.db.conn
    /\ committed' = r.db.committed
    /\ pending' = r.db.pending
    /\ dbRet' = r.ret
    /\ dbValue' = r.value

\* every call but connect() leaves the tables and indexes as they are
SetDb(r) ==
    /\ SetStore(r)
    /\ schema' = schema

RECURSIVE RowCount(_, _)
RowCount(view, n) ==
    IF n = 0 THEN 0 ELSE Len(view[Tables[n]].rows) + RowCount(view, n - 1)

RECURSIVE SeqCount(_, _)
SeqCount(view, n) ==
    IF n = 0 THEN 0 ELSE view[Tables[n]].seq + SeqCount(view, n - 1)

\* the rows ever inserted through the connection stay within MaxRows
Room(batch) == SeqCount(pending, 3) + Len(batch) <= MaxRows

\* no GPU library on the host: MetricsCollector() leaves nvidia_initialized
\* False
NoSamplerCall == [name |-> "none", host |-> <<>>, ret |-> Returned(<<>>)]

NoNvml == [available |-> FALSE, init |-> 0, query |-> 0]

SamplerIdle ==
    /\ nvidia_initialized = FALSE
    /\ gpu_count = 0
    /\ nvml = NoNvml
    /\ samplerOp = NoSamplerCall

NoCall == [name |-> "init", arg |-> <<>>, fail |-> NoFail, at |-> 0,
           before |-> EmptyStore]

\* Config.DEFAULT_CONFIG: every family it names enabled; it has no
\* metrics.gpu key, so config.get('metrics.gpu') is None (false)
DefaultConfig ==
    [collection_interval |-> DefaultInterval,
     retention_days |-> DefaultRetention,
     metrics |-> [cpu |-> TRUE, memory |-> TRUE, disk |-> TRUE,
                  temperature |-> TRUE, gpu |-> FALSE]]

NoHist == [loopStart |-> 0, cleanupAt |-> 0, cleanups |-> 0, errors |-> 0,
           warnings |-> 0, sigAt |-> "none", exit |-> "none",
           shutdowns |-> 0]

\* the fields of the tracker before run() has touched them: running False
TrackerFresh ==
    /\ running = FALSE
    /\ start_time = 0
    /\ last_cleanup = 0
    /\ elapsed = 0
    /\ sleep_time = 0
    /\ warned = FALSE
    /\ tickErr = FALSE
    /\ tickCount = 0
    /\ called = <<>>
    /\ signals = 0
    /\ hist = NoHist

\* UtilizationTracker.__init__ has returned: running False, db None
TrackerConstructed ==
    /\ pc = "constructed"
    /\ TrackerFresh

(* ---------------------------- Configuration ---------------------------- *)
\* the keys of DEFAULT_CONFIG whose value is a dict
NestedKeys == {"paths", "database", "logging", "metrics"}

\* the dicts that the class body creates, as written in DEFAULT_CONFIG
ClassBodyHeap ==
    [paths    |-> [install_dir |-> "/opt/utilization-tracker",
                   config_dir  |-> "/etc/utilization-tracker",
                   data_dir    |-> "/var/lib/utilization-tracker",
                   log_dir     |-> "/var/log/utilization-tracker"],
     database |-> [filename |-> "metrics.db"],
     logging  |-> [filename |-> "tracker.log", level |-> "INFO",
                   max_bytes |-> 10485760, backup_count |-> 5],
     metrics  |-> [cpu |-> TRUE, memory |-> TRUE, disk |-> TRUE,
                   load_average |-> TRUE, temperature |-> TRUE]]

\* the top level of DEFAULT_CONFIG: numbers, and references to the dicts
ClassTop ==
    [collection_interval |-> DefaultInterval,
     retention_days |-> DefaultRetention,
     paths |-> "paths", database |-> "database", logging |-> "logging",
     metrics |-> "metrics"]

\* dict.copy(): a new top level holding the same references
copy(top) == top

\* the value of a config dict: references followed into the heap
ConfigValue(top, h) ==
    [k \in DOMAIN top |-> IF k \in NestedKeys THEN h[top[k]] ELSE top[k]]

\* dict.update(value)
update(d, value) ==
    [k \in DOMAIN d \cup DOMAIN value |->
        IF k \in DOMAIN value THEN value[k] ELSE d[k]]

\* isinstance(self.config[key], dict) and isinstance(value, dict): in the
\* files of the model a dict is given exactly for the nested keys
MergesInto(top, user_config, key) ==
    key \in DOMAIN top /\ key \in NestedKeys

\* _merge_config: self.config[key].update(value) for two dicts, otherwise
\* self.config[key] = value
_merge_config(top, h, user_config) ==
    [top  |-> [k \in DOMAIN top \cup DOMAIN user_config |->
                  IF k \in DOMAIN user_config
                     /\ ~MergesInto(top, user_config, k)
                  THEN user_config[k] ELSE top[k]],
     heap |-> [o \in DOMAIN h |->
                  IF \E k \in DOMAIN user_config :
                        MergesInto(top, user_config, k) /\ top[k] = o
                  THEN update(h[o], user_config[o]) ELSE h[o]]]

\* os.path.join(directory, filename)
path_join(directory, filename) == <<directory, filename>>

\* _construct_paths: self.config['database']['path'] = ..., and the same
\* for logging
_construct_paths(top, h) ==
    [h EXCEPT
       ![top.database] =
           update(@, [path |-> path_join(h[top.paths].data_dir,
                                         h[top.database].filename)]),
       ![top.logging] =
           update(@, [path |-> path_join(h[top.paths].log_dir,
                                         h[top.logging].filename)])]

\* Config.__init__: config_path is None, or the parsed content of the file
\* at that path; an empty file is not merged
Config_init(h, config_path) ==
    LET merged == IF config_path # None /\ DOMAIN config_path[1] # {}
                  THEN _merge_config(copy(ClassTop), h, config_path[1])
                  ELSE [top |-> copy(ClassTop), heap |-> h]
    IN  [heap |-> _construct_paths(merged.top, merged.heap),
         cfg  |-> [built |-> TRUE, path |-> config_path, top |-> merged.top]]

\* no Config has been constructed in the process
ConfigIdle ==
    /\ heap = ClassBodyHeap
    /\ instance = [built |-> FALSE, path |-> None, top |-> ClassTop]

\* the tracker exists: Config() was constructed once, without a file
ConfigBuilt ==
    /\ heap = Config_init(ClassBodyHeap, None).heap
    /\ instance = Config_init(ClassBodyHeap, None).cfg

\* the configuration file behind a configuration of the runs: the values
\* that differ from the defaults
UserFileOf(c) ==
    LET mdiff == {m \in DOMAIN c.metrics :
                     c.metrics[m] # DefaultConfig.metrics[m]}
        keys  == {k \in {"collection_interval", "retention_days"} :
                     c[k] # DefaultConfig[k]}
                 \cup (IF mdiff = {} THEN {} ELSE {"metrics"})
    IN  IF keys = {} THEN None
        ELSE Some([k \in keys |->
                     IF k = "metrics" THEN [m \in mdiff |-> c.metrics[m]]
                     ELSE c[k]])

DbInit ==
    /\ now = 0
    /\ conn = "none"
    /\ schema = <<>>
    /\ committed = EmptyStore
    /\ pending = EmptyStore
    /\ dbRet = "ok"
    /\ dbValue = None
    /\ dbOp = NoCall
    /\ TrackerConstructed
    /\ config = DefaultConfig
    /\ ConfigBuilt
    /\ SamplerIdle

DbConnect ==
    /\ conn # "open"
    /\ \E ok \in BOOLEAN :
          /\ SetStore(connect(TheDb, schema, ok))
          /\ schema' = connect(TheDb, schema, ok).schema
          /\ dbOp' = Call("connect", <<>>, NoFail)
    /\ UNCHANGED <<now, trVars>>
    /\ UNCHANGED <<smVars, cfVars>>

DbInsertSystem ==
    /\ \E metrics \in DbSystemSamples(now), fail \in Fails(2) :
          /\ Room(<<metrics>>)
          /\ SetDb(insert_system_metrics(TheDb, metrics, fail))
          /\ dbOp' = Call("insert_system_metrics", <<metrics>>, fail)
    /\ UNCHANGED <<now, trVars>>
    /\ UNCHANGED <<smVars, cfVars>>

DbInsertDisk ==
    /\ \E metrics_list \in DbDiskBatches(now) :
       \E fail \in Fails(Len(metrics_list) + 1) :
          /\ Room(metrics_list)
          /\ SetDb(insert_disk_metrics(TheDb, metrics_list, fail))
          /\ dbOp' = Call("insert_disk_metrics", metrics_list, fail)
    /\ UNCHANGED <<now, trVars>>
    /\ UNCHANGED <<smVars, cfVars>>

DbInsertTemperature ==
    /\ \E metrics_list \in DbTempBatches(now) :
       \E fail \in Fails(Len(metrics_list) + 1) :
          /\ Room(metrics_list)
          /\ SetDb(insert_temperature_metrics(TheDb, metrics_list, fail))
          /\ dbOp' = Call("insert_temperature_metrics", metrics_list, fail)
    /\ UNCHANGED <<now, trVars>>
    /\ UNCHANGED <<smVars, cfVars>>

DbCleanup ==
    /\ \E retention_days \in RetentionChoices, fail \in Fails(4) :
          /\ SetDb(cleanup_old_data(TheDb, retention_days, now, fail))
          /\ dbOp' = Call("cleanup_old_data", retention_days, fail)
    /\ UNCHANGED <<now, trVars>>
    /\ UNCHANGED <<smVars, cfVars>>

DbClose ==
    /\ SetDb(close(TheDb))
    /\ dbOp' = Call("close", conn, NoFail)
    /\ UNCHANGED <<now, trVars>>
    /\ UNCHANGED <<smVars, cfVars>>

DbAdvance ==
    /\ now + DbClockStep <= MaxDbNow
    /\ now' = now + DbClockStep
    /\ UNCHANGED <<dbVars, trVars>>
    /\ UNCHANGED <<smVars, cfVars>>

vars == <<now, dbVars, trVars, smVars, cfVars>>

DbNext ==
    \/ DbConnect
    \/ DbInsertSystem
    \/ DbInsertDisk
    \/ DbInsertTemperature
    \/ DbCleanup
    \/ DbClose
    \/ DbAdvance

SpecDB == DbInit /\ [][DbNext]_vars

(* ------------------------------ Scheduler ------------------------------ *)
Max(a, b) == IF a >= b THEN a ELSE b

\* the configurations of the runs: the defaults, and each family disabled
\* in turn: the one without disk from a file that also sets a short
\* retention and metrics.gpu (which _merge_config adds to the metrics), the
\* one without temperature with a short retention and an interval above one
\* day
ConfigChoices ==
    {DefaultConfig,
     [DefaultConfig EXCEPT !.metrics.disk = FALSE,
                           !.retention_days = ShortRetention,
                           !.metrics.gpu = TRUE],
     [DefaultConfig EXCEPT !.metrics.temperature = FALSE,
                           !.retention_days = ShortRetention,
                           !.collection_interval = LongInterval],
     [DefaultConfig EXCEPT !.metrics.cpu = FALSE, !.metrics.memory = FALSE]}

\* configuration files that Config.validate rejects
InvalidConfigs ==
    {[DefaultConfig EXCEPT !.collection_interval = 0],
     [DefaultConfig EXCEPT !.retention_days = 0]}

validate_Lenient(cfg) == TRUE

\* Config.validate: ValueError unless both values are at least 1
validate(cfg) == ~(cfg.collection_interval < 1) /\ ~(cfg.retention_days < 1)

\* host states met by the ticks
TickSystemHosts == {h \in SystemHosts : h.mem_ok /\ h.loadavg_ok}
TickDiskHosts ==
    {[enum_ok |-> FALSE, partitions |-> <<>>],
     [enum_ok |-> TRUE, partitions |-> <<>>],
     [enum_ok |-> TRUE, partitions |-> <<SdaOk, SdbOk>>]}
TickTempHosts ==
    {[status |-> "unsupported", entries |-> <<>>],
     [status |-> "ok", entries |-> <<CoreTemp>>]}
StepDurations == {0, LongStep}

Truthy_Always(metrics_list) == TRUE

\* `if disk_metrics:` / `if temp_metrics:` -- a list is true unless empty
Truthy(metrics_list) == metrics_list # <<>>

FamilyEnabled_Always(cfg, family) == TRUE

\* the tests of _collect_and_store on the metrics flags: the system family
\* runs when metrics.cpu or metrics.memory is true
FamilyEnabled(cfg, family) ==
    CASE family = "system" -> cfg.metrics.cpu \/ cfg.metrics.memory
      [] family = "disk" -> cfg.metrics.disk
      [] family = "temperature" -> cfg.metrics.temperature

\* storage failures met by the ticks: none, a statement-level failure at
\* statement n and, for a batch, a failure at the first statement that
\* rolls back
TickFails(n) ==
    {NoFail, [at |-> n, keep |-> TRUE]} \cup
    (IF n > 1 THEN {[at |-> 1, keep |-> FALSE]} ELSE {})

AfterFailure_Reraised == "fatal"

AfterFailure_Retry == "system"

\* _collect_and_store: except Exception: log the error; the method returns
\* and run() goes on to the cleanup check
AfterFailure == "cleanup_check"

HandlerResume_Interrupting(p) == "shutdown"

\* _handle_shutdown returns to the interrupted code
HandlerResume(p) == p

LoopContinues_Forever(r) == TRUE

\* while self.running
LoopContinues(r) == r

SleepTime_WholeInterval(interval, e) == interval

SleepTime_NoSleep(interval, e) == 0

\* sleep_time = max(0, interval - elapsed)
SleepTime(interval, e) == Max(0, interval - e)

CleanupDue_Always(t, last) == TRUE

\* time.time() - last_cleanup > cleanup_interval
CleanupDue(t, last) == t - last > cleanup_interval

RetentionDays_DefaultOnly(cfg) == DefaultRetention

\* self.config.get('retention_days', 30)
RetentionDays(cfg) == cfg.retention_days

\* the process at the entry of main(): the configuration file is read next
Init ==
    /\ now = 0
    /\ conn = "none"
    /\ schema = <<>>
    /\ committed = EmptyStore
    /\ pending = EmptyStore
    /\ dbRet = "ok"
    /\ dbValue = None
    /\ dbOp = NoCall
    /\ pc = "main"
    /\ TrackerFresh
    /\ config \in ConfigChoices \cup InvalidConfigs
    /\ ConfigIdle
    /\ SamplerIdle

\* main(): UtilizationTracker(config_path) -- Config(), config.validate();
\* the ValueError of validate leaves __init__ and main()
Construct ==
    /\ pc = "main"
    /\ pc' = IF validate(config) THEN "constructed" ELSE "crashed"
    /\ heap' = Config_init(heap, UserFileOf(config)).heap
    /\ instance' = Config_init(heap, UserFileOf(config)).cfg
    /\ UNCHANGED <<now, dbVars, running, config, start_time, last_cleanup,
                   elapsed, sleep_time, warned, tickErr, tickCount, called,
                   signals, hist>>
    /\ UNCHANGED smVars

\* run(): log, get_system_info
RunStart ==
    /\ pc = "constructed"
    /\ pc' = "setup_database"
    /\ UNCHANGED <<now, dbVars, running, config, start_time, last_cleanup,
                   elapsed, sleep_time, warned, tickErr, tickCount, called,
                   signals, hist>>
    /\ UNCHANGED <<smVars, cfVars>>

\* run(): _setup_database; an error of connect() leaves run()
SetupDatabase ==
    /\ pc = "setup_database"
    /\ \E ok \in BOOLEAN :
          /\ SetStore(connect(TheDb, schema, ok))
          /\ schema' = connect(TheDb, schema, ok).schema
          /\ dbOp' = Call("connect", <<>>, NoFail)
          /\ pc' = IF ok THEN "enter_loop" ELSE "crashed"
    /\ UNCHANGED <<now, running, config, start_time, last_cleanup, elapsed,
                   sleep_time, warned, tickErr, tickCount, called, signals,
                   hist>>
    /\ UNCHANGED <<smVars, cfVars>>

\* run(): self.running = True; last_cleanup = time.time()
EnterLoop ==
    /\ pc = "enter_loop"
    /\ running' = TRUE
    /\ last_cleanup' = now
    /\ hist' = [hist EXCEPT !.loopStart = now]
    /\ pc' = "loop_check"
    /\ UNCHANGED <<now, dbVars, config, start_time, elapsed, sleep_time,
                   warned, tickErr, tickCount, called, signals>>
    /\ UNCHANGED <<smVars, cfVars>>

\* run(): while self.running: start_time = time.time()
LoopCheck ==
    /\ pc = "loop_check"
    /\ IF LoopContinues(running)
       THEN /\ tickCount < MaxTicks
            /\ start_time' = now
            /\ tickCount' = tickCount + 1
            /\ called' = <<>>
            /\ tickErr' = FALSE
            /\ warned' = FALSE
            /\ pc' = "system"
            /\ UNCHANGED hist
       ELSE /\ pc' = "shutdown"
            /\ hist' = [hist EXCEPT !.exit = "flag"]
            /\ UNCHANGED <<start_time, tickCount, called, tickErr, warned>>
    /\ UNCHANGED <<now, dbVars, running, config, last_cleanup, elapsed,
                   sleep_time, signals>>
    /\ UNCHANGED <<smVars, cfVars>>

\* the end of one family's part of _collect_and_store
FamilyDone(calls, failed, nextPc, d) ==
    /\ called' = called \o calls
    /\ tickErr' = (tickErr \/ failed)
    /\ hist' = IF failed THEN [hist EXCEPT !.errors = @ + 1] ELSE hist
    /\ pc' = IF failed THEN AfterFailure ELSE nextPc
    /\ now' = now + d

FamilyUnchanged ==
    UNCHANGED <<running, config, start_time, last_cleanup, elapsed,
                sleep_time, warned, tickCount, signals>>

\* _collect_and_store: the system family
StepSystem ==
    /\ pc = "system"
    /\ IF FamilyEnabled(config, "system")
       THEN \E host \in TickSystemHosts, fail \in TickFails(1) :
               LET r == collect_system_metrics(host, now)
                   s == insert_system_metrics(TheDb, r.value, fail)
               IN  IF r.raised
                   THEN /\ FamilyDone(<<"collect_system_metrics">>, TRUE,
                                      "disk", 0)
                        /\ UNCHANGED dbVars
                   ELSE /\ SetDb(s)
                        /\ dbOp' = Call("insert_system_metrics",
                                        <<r.value>>, fail)
                        /\ FamilyDone(<<"collect_system_metrics",
                                        "insert_system_metrics">>,
                                      s.ret = "raised", "disk",
                                      CpuSampleSeconds)
       ELSE /\ FamilyDone(<<>>, FALSE, "disk", 0)
            /\ UNCHANGED dbVars
    /\ FamilyUnchanged
    /\ UNCHANGED <<smVars, cfVars>>

\* _collect_and_store: the disk family
StepDisk ==
    /\ pc = "disk"
    /\ IF FamilyEnabled(config, "disk")
       THEN \E host \in TickDiskHosts, d \in StepDurations :
               LET r == collect_disk_metrics(host, now)
               IN  IF r.raised
                   THEN /\ FamilyDone(<<"collect_disk_metrics">>, TRUE,
                                      "temperature", d)
                        /\ UNCHANGED dbVars
                   ELSE IF ~Truthy(r.value)
                   THEN /\ FamilyDone(<<"collect_disk_metrics">>, FALSE,
                                      "temperature", d)
                        /\ UNCHANGED dbVars
                   ELSE \E fail \in TickFails(Len(r.value)) :
                          LET s == insert_disk_metrics(TheDb, r.value, fail)
                          IN  /\ SetDb(s)
                              /\ dbOp' = Call("insert_disk_metrics",
                                              r.value, fail)
                              /\ FamilyDone(<<"collect_disk_metrics",
                                              "insert_disk_metrics">>,
                                            s.ret = "raised",
                                            "temperature", d)
       ELSE /\ FamilyDone(<<>>, FALSE, "temperature", 0)
            /\ UNCHANGED dbVars
    /\ FamilyUnchanged
    /\ UNCHANGED <<smVars, cfVars>>

\* _collect_and_store: the temperature family
StepTemperature ==
    /\ pc = "temperature"
    /\ IF FamilyEnabled(config, "temperature")
       THEN \E host \in TickTempHosts, d \in {0} :
               LET r == collect_temperature_metrics(host, now)
               IN  IF r.raised
                   THEN /\ FamilyDone(<<"collect_temperature_metrics">>,
                                      TRUE, "cleanup_check", d)
                        /\ UNCHANGED dbVars
                   ELSE IF ~Truthy(r.value)
                   THEN /\ FamilyDone(<<"collect_temperature_metrics">>,
                                      FALSE, "cleanup_check", d)
                        /\ UNCHANGED dbVars
                   ELSE \E fail \in TickFails(Len(r.value)) :
                          LET s == insert_temperature_metrics(TheDb, r.value,
                                                              fail)
                          IN  /\ SetDb(s)
                              /\ dbOp' = Call("insert_temperature_metrics",
                                              r.value, fail)
                              /\ FamilyDone(<<"collect_temperature_metrics",
                                              "insert_temperature_metrics">>,
                                            s.ret = "raised",
                                            "cleanup_check", d)
       ELSE /\ FamilyDone(<<>>, FALSE, "cleanup_check", 0)
            /\ UNCHANGED dbVars
    /\ FamilyUnchanged
    /\ UNCHANGED <<smVars, cfVars>>

\* run(): if time.time() - last_cleanup > cleanup_interval:
\*            self._cleanup_old_data(); last_cleanup = time.time()
CleanupCheck ==
    /\ pc = "cleanup_check"
    /\ IF CleanupDue(now, last_cleanup)
       THEN \E fail \in TickFails(2) :
            \E d \in IF fail = NoFail THEN StepDurations ELSE {0} :
               /\ SetDb(cleanup_old_data(TheDb, RetentionDays(config), now,
                                         fail))
               /\ dbOp' = Call("cleanup_old_data", RetentionDays(config), fail)
               /\ called' = Append(called, "cleanup_old_data")
               /\ hist' = [hist EXCEPT !.cleanups = @ + 1, !.cleanupAt = now]
               /\ now' = now + d
               /\ last_cleanup' = now + d
       ELSE UNCHANGED <<now, dbVars, called, hist, last_cleanup>>
    /\ pc' = "sleep_calc"
    /\ UNCHANGED <<running, config, start_time, elapsed, sleep_time, warned,
                   tickErr, tickCount, signals>>
    /\ UNCHANGED <<smVars, cfVars>>

\* run(): elapsed, sleep_time; the warning when there is nothing to sleep
SleepCalc ==
    /\ pc = "sleep_calc"
    /\ elapsed' = now - start_time
    /\ sleep_time' = SleepTime(config.collection_interval, now - start_time)
    /\ IF sleep_time' > 0
       THEN /\ pc' = "sleeping"
            /\ UNCHANGED <<warned, hist>>
       ELSE /\ pc' = "loop_check"
            /\ warned' = TRUE
            /\ hist' = [hist EXCEPT !.warnings = @ + 1]
    /\ UNCHANGED <<now, dbVars, running, config, start_time, last_cleanup,
                   tickErr, tickCount, called, signals>>
    /\ UNCHANGED <<smVars, cfVars>>

\* run(): time.sleep(sleep_time); a handled signal does not cut it short
Sleep ==
    /\ pc = "sleeping"
    /\ now' = now + sleep_time
    /\ pc' = "loop_check"
    /\ UNCHANGED <<dbVars, running, config, start_time, last_cleanup, elapsed,
                   sleep_time, warned, tickErr, tickCount, called, signals,
                   hist>>
    /\ UNCHANGED <<smVars, cfVars>>

ExitPc_Swallowed(p) == "stopped"

\* run(): except Exception: log, raise -- the exception leaves run() after
\* the finally clause; the other exits return normally
ExitPc(p) == IF p = "fatal" THEN "raised" ELSE "stopped"

\* run(): finally: self.shutdown() -- closes the database
Shutdown ==
    /\ pc \in {"shutdown", "fatal"}
    /\ SetDb(close(TheDb))
    /\ dbOp' = Call("close", conn, NoFail)
    /\ pc' = ExitPc(pc)
    /\ hist' = [hist EXCEPT !.shutdowns = @ + 1]
    /\ UNCHANGED <<now, running, config, start_time, last_cleanup, elapsed,
                   sleep_time, warned, tickErr, tickCount, called, signals>>
    /\ UNCHANGED <<smVars, cfVars>>

\* a SIGTERM or SIGINT runs _handle_shutdown between two steps of run(); the
\* handlers are installed at the end of __init__
HandleShutdown ==
    /\ pc \notin {"main", "stopped", "raised", "crashed"}
    /\ signals < MaxSignals
    /\ signals' = signals + 1
    /\ running' = FALSE
    /\ pc' = HandlerResume(pc)
    /\ hist' = IF hist.sigAt = "none" THEN [hist EXCEPT !.sigAt = pc] ELSE hist
    /\ UNCHANGED <<now, dbVars, config, start_time, last_cleanup, elapsed,
                   sleep_time, warned, tickErr, tickCount, called>>
    /\ UNCHANGED <<smVars, cfVars>>

Next ==
    \/ Construct
    \/ RunStart
    \/ SetupDatabase
    \/ EnterLoop
    \/ LoopCheck
    \/ StepSystem
    \/ StepDisk
    \/ StepTemperature
    \/ CleanupCheck
    \/ SleepCalc
    \/ Sleep
    \/ Shutdown
    \/ HandleShutdown

Spec == Init /\ [][Next]_vars

(* ------------------- Sampler driven call by call ----------------------- *)
SdbDenied == [SdbOk EXCEPT !.usage = "perm"]
SdbBroken == [SdbOk EXCEPT !.usage = "err"]
Loop0 == [device |-> "/dev/loop0", fstype |-> "squashfs",
          mountpoint |-> "/snap/core", usage |-> "ok", total |-> 1024,
          percent |-> 100]
Pseudo == [device |-> "none", fstype |-> "", mountpoint |-> "/proc",
           usage |-> "ok", total |-> 0, percent |-> 0]

RECURSIVE SeqsUpTo(_, _)
SeqsUpTo(S, n) ==
    IF n = 0 THEN {<<>>}
    ELSE LET shorter == SeqsUpTo(S, n - 1)
         IN  shorter \cup {Append(q, x) : q \in shorter, x \in S}

DiskHosts ==
    {[enum_ok |-> FALSE, partitions |-> <<>>]} \cup
    {[enum_ok |-> TRUE, partitions |-> ps] :
        ps \in SeqsUpTo({SdaOk, SdbDenied, SdbBroken, Loop0, Pseudo}, MaxBatch)}

TempHosts ==
    {[status |-> st, entries |-> <<>>] : st \in {"unsupported", "error"}} \cup
    {[status |-> "ok", entries |-> es] :
        es \in SeqsUpTo({CoreTemp, AcpiTemp}, MaxBatch)}

\* a GPU that answers every query: power readings are in milliwatts
OkGpu ==
    [mandatory_ok |-> TRUE, utilization |-> 90,
     temperature |-> [ok |-> TRUE, v |-> 55],
     power_draw  |-> [ok |-> TRUE, v |-> 150000],
     power_limit |-> [ok |-> TRUE, v |-> 250000],
     fan_speed   |-> [ok |-> TRUE, v |-> 40]]

OptionalFields == {"temperature", "power_draw", "power_limit", "fan_speed"}

\* the GPU g with the optional queries fs raising
QueriesFail(g, fs) ==
    [f \in DOMAIN g |-> IF f \in fs THEN [ok |-> FALSE, v |-> 0] ELSE g[f]]

\* the GPUs of the hosts: one whose mandatory queries fail, and the
\* answering one with no, one or all of its optional queries failing
GpuStates ==
    {[OkGpu EXCEPT !.mandatory_ok = FALSE]} \cup
    {QueriesFail(OkGpu, fs) :
        fs \in {{}, OptionalFields} \cup {{f} : f \in OptionalFields}}
GpuHosts(n) == {[gpus |-> gs] : gs \in {g \in SeqsUpTo(GpuStates, n) : Len(g) = n}}

\* MetricsCollector.__init__: nvmlInit is tried once when pynvml imports
SamplerInit ==
    /\ now = 0
    /\ conn = "none"
    /\ schema = <<>>
    /\ committed = EmptyStore
    /\ pending = EmptyStore
    /\ dbRet = "ok"
    /\ dbValue = None
    /\ dbOp = NoCall
    /\ TrackerConstructed
    /\ config = DefaultConfig
    /\ ConfigBuilt
    /\ \E available \in BOOLEAN, init_ok \in BOOLEAN :
          /\ nvidia_initialized = (available /\ init_ok)
          /\ nvml = [available |-> available,
                     init |-> IF available THEN 1 ELSE 0, query |-> 0]
    /\ gpu_count \in IF nvidia_initialized THEN 0..MaxGpus ELSE {0}
    /\ samplerOp = NoSamplerCall

SamplerResult(name, host, ret) == [name |-> name, host |-> host, ret |-> ret]

SampleSystem ==
    /\ \E host \in SystemHosts :
          samplerOp' = SamplerResult("collect_system_metrics", host,
                                     collect_system_metrics(host, now))
    /\ UNCHANGED <<now, dbVars, trVars, cfVars, nvidia_initialized, gpu_count, nvml>>

SampleDisk ==
    /\ \E host \in DiskHosts :
          samplerOp' = SamplerResult("collect_disk_metrics", host,
                                     collect_disk_metrics(host, now))
    /\ UNCHANGED <<now, dbVars, trVars, cfVars, nvidia_initialized, gpu_count, nvml>>

SampleTemperature ==
    /\ \E host \in TempHosts :
          samplerOp' = SamplerResult("collect_temperature_metrics", host,
                                     collect_temperature_metrics(host, now))
    /\ UNCHANGED <<now, dbVars, trVars, cfVars, nvidia_initialized, gpu_count, nvml>>

\* gpu_count GPUs answer when the library was initialised; without it the
\* host may still carry GPUs
SampleGpu ==
    /\ \E n \in IF nvidia_initialized THEN {gpu_count} ELSE 0..MaxGpus :
       \E host \in GpuHosts(n) :
          /\ samplerOp' = SamplerResult("collect_gpu_metrics", host,
                                        collect_gpu_metrics(nvidia_initialized,
                                                            host, now))
          /\ nvml' = NvmlAfterCollect(nvml, nvidia_initialized, host)
    /\ UNCHANGED <<now, dbVars, trVars, cfVars, nvidia_initialized, gpu_count>>

SamplerNext ==
    \/ SampleSystem
    \/ SampleDisk
    \/ SampleTemperature
    \/ SampleGpu

SpecSampler == SamplerInit /\ [][SamplerNext]_vars

(* ------------------------ claims: Storage Engine ----------------------- *)
SamplesOf(rows) == [i \in 1..Len(rows) |-> rows[i].sample]

TableOf(name) ==
    IF name = "insert_disk_metrics" THEN "disk_metrics"
    ELSE IF name = "insert_temperature_metrics" THEN "temperature_metrics"
    ELSE "system_metrics"

\* C1: after a retention sweep that completed, with cutoff c = now -
\* retention_days, every table holds exactly the rows it held before whose
\* timestamp is not earlier than c: no row older than c survives and no row
\* at or after c is deleted.
C1_SweepIsExact ==
    (dbOp.name = "cleanup_old_data" /\ dbRet = "ok") =>
        \A t \in TableSet :
            pending[t].rows =
                SelectSeq(dbOp.before[t].rows,
                          LAMBDA r : Instant(r.sample.timestamp)
                                        >= cutoff_date(dbOp.at, dbOp.arg))

\* C2: a batch insert of N >= 2 rows is atomic: when row k (1 < k <= N)
\* fails the call raises and no row of the batch is visible in the table;
\* when nothing fails all N rows are committed.
C2_BatchIsAtomic ==
    (/\ dbOp.name \in {"insert_disk_metrics", "insert_temperature_metrics"}
     /\ Len(dbOp.arg) >= 2) =>
        LET t == TableOf(dbOp.name)
            n == Len(committed[t].rows)
        IN  /\ (dbOp.fail.at = 0 /\ dbRet = "ok") =>
                   /\ n >= Len(dbOp.arg)
                   /\ SubSeq(SamplesOf(committed[t].rows),
                             n - Len(dbOp.arg) + 1, n) = dbOp.arg
                   /\ pending[t] = committed[t]
            /\ (dbOp.fail.at > 1 /\ dbOp.fail.at <= Len(dbOp.arg)) =>
                   /\ dbRet = "raised"
                   /\ \A i \in 1..Len(pending[t].rows) :
                          pending[t].rows[i].id <= dbOp.before[t].seq

(* --------------------------- claims: Scheduler ------------------------- *)
WasCalled(name) == \E i \in 1..Len(called) : called[i] = name

SystemEnabled == config.metrics.cpu \/ config.metrics.memory

LoopPcs == {"loop_check", "system", "disk", "temperature", "cleanup_check",
            "sleep_calc", "sleeping", "shutdown", "stopped"}

\* C3: when _collect_and_store has returned, the Sampler operation of every
\* enabled family has been invoked in that tick, whether or not an earlier
\* family failed.
C3_FamiliesAreIsolated ==
    pc = "cleanup_check" =>
        /\ SystemEnabled => WasCalled("collect_system_metrics")
        /\ config.metrics.disk => WasCalled("collect_disk_metrics")
        /\ config.metrics.temperature => WasCalled("collect_temperature_metrics")

\* C4: a Sampler or insert failure inside a tick leaves the running flag as
\* it is and the connection open, and from there the loop goes through the
\* cleanup check and the sleep to the next loop test, which starts the next
\* tick while the daemon is running.
C4_FailureKeepsDaemonRunning ==
    [][/\ (tickErr' /\ ~tickErr) =>
              /\ running' = running
              /\ conn' = "open"
              /\ pc' = "cleanup_check"
       /\ (tickErr /\ pc' # pc) =>
              /\ pc = "cleanup_check" => pc' = "sleep_calc"
              /\ pc = "sleep_calc" => pc' \in {"sleeping", "loop_check"}
              /\ pc = "sleeping" => pc' = "loop_check"
              /\ (pc = "loop_check" /\ running) =>
                     (pc' = "system" /\ conn' = "open")
              /\ (pc = "loop_check" /\ ~running) => signals > 0]_vars

C4_Witness ==
    /\ hist.errors >= 1
    /\ tickCount = 2
    /\ pc = "system"
    /\ running
    /\ conn = "open"

\* C5: the running flag is set only on entry to the loop; the loop is left
\* only at the loop test with the flag cleared, that is after the last step
\* of the tick in flight; Stopped is reached only through shutdown(), and
\* the connection is closed exactly in Stopped, so no call follows the close.
C5_Lifecycle ==
    [][/\ (running' /\ ~running) => pc = "enter_loop"
       /\ (pc' = "shutdown" /\ pc # "shutdown") =>
              (pc = "loop_check" /\ ~running)
       /\ (pc' = "stopped" /\ pc # "stopped") => pc = "shutdown"
       /\ (conn' = "closed") <=> (pc' = "stopped")
       /\ pc = "stopped" => UNCHANGED <<dbVars, called, tickCount>>]_vars

C5_Witness ==
    /\ pc = "stopped"
    /\ conn = "closed"
    /\ hist.sigAt = "disk"
    /\ WasCalled("collect_temperature_metrics")
    /\ now >= start_time + config.collection_interval

\* C6: a signal changes nothing but the running flag (and the count of
\* signals); in particular it leaves the position in the tick, the store and
\* the clock alone.  Once the flag is cleared inside the loop no tick begins.
C6_CooperativeCancellation ==
    [][/\ (signals' # signals) =>
              /\ running' = FALSE
              /\ UNCHANGED <<now, dbVars, pc, config, start_time,
                             last_cleanup, elapsed, sleep_time, warned,
                             tickErr, tickCount, called>>
       /\ (~running /\ pc \in LoopPcs) =>
              (tickCount' = tickCount /\ (pc' = "system" => pc = "system"))]_vars

C6_Witness ==
    /\ pc = "stopped"
    /\ hist.sigAt = "sleeping"
    /\ tickCount = 1
    /\ now = start_time + config.collection_interval

\* C7: when the loop test is reached after a tick, the sleep was
\* max(0, interval - e), the clock stands at tickStart + max(interval, e),
\* and the overrun warning was logged exactly when e >= interval.
C7_Cadence ==
    (pc = "loop_check" /\ tickCount >= 1) =>
        /\ sleep_time = Max(0, config.collection_interval - elapsed)
        /\ now = start_time + Max(config.collection_interval, elapsed)
        /\ warned <=> (elapsed >= config.collection_interval)

C7_Witness ==
    /\ pc = "loop_check"
    /\ tickCount = 2
    /\ hist.warnings >= 1
    /\ ~warned
    /\ elapsed > 0
    /\ elapsed < config.collection_interval

SweepInvoked == hist'.cleanups # hist.cleanups

\* the first two parts of C8: a sweep is invoked only when more than one
\* prune period has passed since the loop was entered and since the
\* previous sweep was invoked
PruneSeparation ==
    SweepInvoked =>
        /\ now - hist.loopStart > cleanup_interval
        /\ hist.cleanups > 0 => now - hist.cleanupAt > cleanup_interval

\* C8 as stated: the separation of the sweeps, and whenever interval is
\* below the prune period the ticks made so far have not all pruned.
C8_AsStated ==
    [][/\ PruneSeparation
       /\ (config.collection_interval < cleanup_interval /\ pc' = "sleep_calc")
              => hist'.cleanups < tickCount']_vars

\* C8 as amended: the separation of the sweeps, and the number of sweeps
\* invoked stays below (time since loop entry) / (prune period).
C8_RateLimited ==
    [][/\ PruneSeparation
       /\ hist'.cleanups > 0 =>
              hist'.cleanups * cleanup_interval < now' - hist'.loopStart]_vars

C8_Witness ==
    /\ hist.cleanups = 2
    /\ pc = "sleep_calc"

\* C9: the step after the family steps invokes the sweep, with
\* cutoff = now - retention_days days for the configured retention_days,
\* exactly when more than the prune period has passed since the last sweep
\* (or loop entry), and goes on to the sleep; no other step invokes it.
C9_PruneTrigger ==
    [][/\ (pc = "cleanup_check" /\ pc' # pc) =>
              /\ pc' = "sleep_calc"
              /\ IF now - last_cleanup > cleanup_interval
                 THEN /\ hist'.cleanups = hist.cleanups + 1
                      /\ dbOp'.name = "cleanup_old_data"
                      /\ cutoff_date(dbOp'.at, dbOp'.arg)
                           = now - config.retention_days * SecondsPerDay
                 ELSE /\ ~SweepInvoked
                      /\ UNCHANGED dbVars
       /\ pc # "cleanup_check" =>
              /\ ~SweepInvoked
              /\ dbOp' # dbOp => dbOp'.name # "cleanup_old_data"]_vars

C9_Witness ==
    /\ pc = "sleep_calc"
    /\ dbOp.name = "cleanup_old_data"
    /\ config.retention_days = ShortRetention
    /\ WasCalled("cleanup_old_data")

(* ---------------------------- claims: Sampler -------------------------- *)
\* the host call that the whole family depends on failed
WholeFamilyFailed ==
    CASE samplerOp.name = "collect_system_metrics" ->
             ~samplerOp.host.cpu_ok \/ ~samplerOp.host.mem_ok
      [] samplerOp.name = "collect_disk_metrics" -> ~samplerOp.host.enum_ok
      [] samplerOp.name = "collect_temperature_metrics" ->
             samplerOp.host.status # "ok"
      [] samplerOp.name = "collect_gpu_metrics" -> ~nvidia_initialized
      [] OTHER -> FALSE

\* C10: no Sampler operation raises, and one whose whole family could not
\* be gathered returns an empty result.
C10_WholeFamilyFailureYieldsEmpty ==
    /\ ~samplerOp.ret.raised
    /\ WholeFamilyFailed => samplerOp.ret.value = <<>>

\* the partitions that collect_disk_metrics is meant to report: real file
\* systems whose usage query succeeds
Reportable(p) ==
    p.fstype # "" /\ p.device \notin LoopDevices /\ p.usage = "ok"

\* C11: a failing unit is skipped alone: the disk call returns one record for
\* every reportable partition, in order, and the GPU call returns a record
\* for GPU i exactly when the mandatory queries of GPU i succeed, also for
\* the GPUs that come after a failing one.
C11_UnitFailureIsIsolated ==
    /\ (samplerOp.name = "collect_disk_metrics" /\ samplerOp.host.enum_ok) =>
           LET good == SelectSeq(samplerOp.host.partitions, Reportable)
               out  == samplerOp.ret.value
           IN  /\ Len(out) = Len(good)
               /\ \A k \in 1..Len(good) : out[k].device = good[k].device
    /\ (samplerOp.name = "collect_gpu_metrics" /\ nvidia_initialized) =>
           LET gpus == samplerOp.host.gpus
               out  == samplerOp.ret.value
           IN  \A i \in 1..Len(gpus) :
                   gpus[i].mandatory_ok <=>
                       \E k \in 1..Len(out) : out[k].gpu_index = i - 1

\* C12: nvmlInit is called once, in the constructor, when the library
\* imports and never otherwise; when the library is missing or the
\* initialisation failed, collect_gpu_metrics returns the empty list, does
\* not raise and queries no GPU, whatever the host carries and however often
\* it is called.
C12_GpuInitOnce ==
    /\ nvml.init = (IF nvml.available THEN 1 ELSE 0)
    /\ ~nvidia_initialized =>
           /\ nvml.query = 0
           /\ samplerOp.name = "collect_gpu_metrics" =>
                  samplerOp.ret = Returned(<<>>)

C12_Witness ==
    /\ nvml.available
    /\ ~nvidia_initialized
    /\ samplerOp.name = "collect_gpu_metrics"
    /\ Len(samplerOp.host.gpus) >= 1
    /\ samplerOp.host.gpus[1].mandatory_ok

\* C13: a configuration with collection_interval < 1 or retention_days < 1,
\* or a connect() that raises, ends the process before the loop: the running
\* flag stays false and no tick, Sampler call or insert is made.
C13_StartupFailureNeverRuns ==
    /\ (config.collection_interval < 1 \/ config.retention_days < 1) =>
           pc \in {"main", "crashed"}
    /\ (dbOp.name = "connect" /\ dbRet = "raised") => pc = "crashed"
    /\ pc = "crashed" =>
           /\ ~running
           /\ tickCount = 0
           /\ called = <<>>
           /\ conn = "none"
           /\ committed = EmptyStore
           /\ pending = EmptyStore
           /\ ~ENABLED Next

C13_Witness ==
    /\ pc = "crashed"
    /\ config.retention_days < 1
    /\ dbOp = NoCall

(* --------------------- claims: Storage Engine errors ------------------- *)
\* the last Storage Engine call met a failure: a statement or the commit
\* failed, or the connection was not open
MetFailure == dbOp.fail.at # 0 \/ conn # "open"

\* C14: an insert of any of the three families and the retention sweep
\* alike end with an error at the caller whenever they meet a storage
\* failure.
C14_StorageFailuresSurface ==
    (/\ dbOp.name \in {"insert_system_metrics", "insert_disk_metrics",
                       "insert_temperature_metrics", "cleanup_old_data"}
     /\ MetFailure) => dbRet = "raised"

\* C15: a retention sweep that completed hands its caller one count per
\* table, the number of rows of that table that were older than the cutoff
\* when the sweep was called.
C15_SweepReturnsCounts ==
    (dbOp.name = "cleanup_old_data" /\ dbRet = "ok") =>
        /\ dbValue # None
        /\ \A t \in TableSet :
               dbValue[1][t] =
                   Len(SelectSeq(dbOp.before[t].rows,
                                 LAMBDA r : Instant(r.sample.timestamp)
                                               < cutoff_date(dbOp.at, dbOp.arg)))

(* ------------------------ claims: tick contents ------------------------ *)
RECURSIVE Count(_, _)
Count(calls, name) ==
    IF calls = <<>> THEN 0
    ELSE (IF Head(calls) = name THEN 1 ELSE 0) + Count(Tail(calls), name)

\* the family was sampled once in this tick and its insert, if any, is the
\* call right after its Sampler call
SampledThenStored(collect, insert) ==
    /\ Count(called, collect) = 1
    /\ Count(called, insert) <= 1
    /\ \A i \in 1..Len(called) :
           called[i] = insert => (i > 1 /\ called[i - 1] = collect)

\* C16: when the family steps of a tick are over without an error, each
\* enabled family among system, disk, temperature and GPU was sampled
\* exactly once and its insert, if one was made, came right after its
\* Sampler call; this includes the GPU family.
C16_EveryFamilySampledAndStored ==
    (pc = "cleanup_check" /\ ~tickErr) =>
        /\ SystemEnabled =>
               SampledThenStored("collect_system_metrics",
                                 "insert_system_metrics")
        /\ config.metrics.disk =>
               SampledThenStored("collect_disk_metrics", "insert_disk_metrics")
        /\ config.metrics.temperature =>
               SampledThenStored("collect_temperature_metrics",
                                 "insert_temperature_metrics")
        /\ config.metrics.gpu =>
               SampledThenStored("collect_gpu_metrics", "insert_gpu_metrics")

(* ---------------------- claims: close and connect ---------------------- *)
\* C17: close() never raises and never changes the persisted rows, and a
\* close() on a connection that is not open (closed before, or never
\* opened) changes nothing at all.
C17_CloseIsRepeatable ==
    [][dbOp'.name = "close" =>
          /\ dbRet' = "ok"
          /\ committed' = committed
          /\ conn' # "open"
          /\ dbOp'.arg # "open" => UNCHANGED <<conn, committed, pending>>]_vars

C17_Witness ==
    /\ dbOp.name = "close"
    /\ dbOp.arg = "closed"
    /\ RowCount(committed, 3) > 0

\* C18: connect() never changes the persisted rows; when it succeeds the
\* connection is open and the store holds the three tables and the three
\* timestamp indexes, each once, whether the store existed before or not;
\* when the store cannot be opened it raises and changes nothing.
C18_ConnectIsIdempotent ==
    [][dbOp'.name = "connect" =>
          /\ committed' = committed
          /\ dbRet' = "ok" =>
                 /\ conn' = "open"
                 /\ pending' = committed
                 /\ schema' = SchemaObjects
          /\ dbRet' # "ok" =>
                 /\ dbRet' = "raised"
                 /\ UNCHANGED <<conn, schema, pending>>]_vars

C18_Witness ==
    /\ dbOp.name = "connect"
    /\ dbRet = "ok"
    /\ RowCount(committed, 3) > 0
    /\ schema = SchemaObjects

(* ------------------------ claims: row lifecycle ------------------------ *)
RowsOf(view, t) == {view[t].rows[i] : i \in 1..Len(view[t].rows)}

\* the records the Sampler hands to the insert of table t at time u
SamplerRecords(t, u) ==
    CASE t = "system_metrics" -> DbSystemSamples(u)
      [] t = "disk_metrics" ->
             UNION {{b[i] : i \in 1..Len(b)} : b \in DbDiskBatches(u)}
      [] t = "temperature_metrics" ->
             UNION {{b[i] : i \in 1..Len(b)} : b \in DbTempBatches(u)}

\* C19: in every step and for every table, a persisted row keeps its fields;
\* a row that becomes persisted carries a fresh id and a record the Sampler
\* produced; and a persisted row goes away only in a step of the retention
\* sweep, never in a step of an insert, of connect or of close.
C19_AppendOnly ==
    [][\A t \in TableSet :
          /\ \A q \in RowsOf(committed, t), r \in RowsOf(committed', t) :
                 q.id = r.id => q = r
          /\ \A r \in RowsOf(committed', t) \ RowsOf(committed, t) :
                 /\ r.id > committed[t].seq
                 /\ \E k \in 0..(MaxDbNow \div DbClockStep) :
                        r.sample \in SamplerRecords(t, k * DbClockStep)
          /\ RowsOf(committed, t) \ RowsOf(committed', t) # {} =>
                 dbOp'.name = "cleanup_old_data"]_vars

(* ----------------------- claims: retry and backoff --------------------- *)
FamilyCalls ==
    {"collect_system_metrics", "insert_system_metrics",
     "collect_disk_metrics", "insert_disk_metrics",
     "collect_temperature_metrics", "insert_temperature_metrics"}

\* C20: within one tick every Sampler operation and every insert is called
\* at most once; once a family has failed no family step runs again in that
\* tick; and the sleep after a failed tick is max(0, interval - elapsed),
\* which brings the clock to tickStart + max(interval, elapsed), as after a
\* tick without failures and whatever the number of earlier failures.
C20_NoRetryNoBackoff ==
    /\ \A name \in FamilyCalls : Count(called, name) <= 1
    /\ tickErr => pc \notin {"system", "disk", "temperature"}
    /\ (tickErr /\ pc \in {"sleeping", "loop_check"}) =>
           sleep_time = Max(0, config.collection_interval - elapsed)
    /\ (tickErr /\ pc = "loop_check") =>
           now = start_time + Max(config.collection_interval, elapsed)

C20_Witness ==
    /\ pc = "loop_check"
    /\ tickCount = 2
    /\ tickErr
    /\ hist.errors = 2
    /\ sleep_time > 0
    /\ Count(called, "collect_system_metrics") = 1

(* ---------------- the retention scenario at day granularity ------------ *)
\* the records of one tick at time u, one per table
TickRecords(u) ==
    [t \in TableSet |->
        CASE t = "system_metrics" ->
                 collect_system_metrics(
                     [cpu_ok |-> TRUE, mem_ok |-> TRUE, loadavg_ok |-> TRUE,
                      cpu_percent |-> 7, load_avg_1 |-> 1],
                     u - CpuSampleSeconds).value
          [] t = "disk_metrics" -> DiskLoop(<<SdaOk>>, isoformat(u))[1]
          [] t = "temperature_metrics" -> TempLoop(<<CoreTemp>>, isoformat(u))[1]]

\* a store left by earlier ticks: in every table one row of 31 days before u
\* and one row of 1 day before u
RECURSIVE ScenarioStore(_, _)
ScenarioStore(u, n) ==
    IF n = 0 THEN EmptyStore
    ELSE ExecInserts(ScenarioStore(u, n - 1), Tables[n],
                     <<TickRecords(u - 31 * SecondsPerDay)[Tables[n]],
                       TickRecords(u - SecondsPerDay)[Tables[n]]>>)

\* the times of day at which the scenario is played
ScenarioNows == {31 * SecondsPerDay + k * DbClockStep : k \in 0..2}

RetentionInit ==
    /\ now \in ScenarioNows
    /\ conn = "open"
    /\ schema = SchemaObjects
    /\ committed = ScenarioStore(now, 3)
    /\ pending = committed
    /\ dbRet = "ok"
    /\ dbValue = None
    /\ dbOp = NoCall
    /\ TrackerConstructed
    /\ config = DefaultConfig
    /\ ConfigBuilt
    /\ SamplerIdle

RetentionNext ==
    \/ DbCleanup
    \/ DbClose
    \/ DbConnect

SpecRetention == RetentionInit /\ [][RetentionNext]_vars

\* C21: a sweep with retention_days = 30 that completed on a store holding,
\* in each table, a row of 31 days before the call and a row of 1 day before
\* the call has removed the first from every table and left the second in
\* every table as it was.
C21_RetentionByDays ==
    (dbOp.name = "cleanup_old_data" /\ dbOp.arg = DefaultRetention
        /\ dbRet = "ok") =>
        \A t \in TableSet : \A r \in RowsOf(dbOp.before, t) :
            /\ Instant(r.sample.timestamp) = dbOp.at - 31 * SecondsPerDay =>
                   r \notin RowsOf(committed, t)
            /\ Instant(r.sample.timestamp) = dbOp.at - SecondsPerDay =>
                   r \in RowsOf(committed, t)

C21_Witness ==
    /\ dbOp.name = "cleanup_old_data"
    /\ dbOp.arg = DefaultRetention
    /\ dbRet = "ok"
    /\ \A t \in TableSet :
           /\ Len(dbOp.before[t].rows) = 2
           /\ Len(committed[t].rows) = 1
           /\ committed[t].rows[1] = dbOp.before[t].rows[2]

(* ------------- Sampler records stored and read back -------------------- *)
\* collector.collect_system_metrics() handed to db.insert_system_metrics()
StoreSystem ==
    /\ \E host \in SystemHosts :
          LET r == collect_system_metrics(host, now)
          IN  /\ ~r.raised
              /\ Room(<<r.value>>)
              /\ SetDb(insert_system_metrics(TheDb, r.value, NoFail))
              /\ dbOp' = Call("insert_system_metrics", <<r.value>>, NoFail)
    /\ UNCHANGED <<now, trVars>>
    /\ UNCHANGED <<smVars, cfVars>>

StoreDisk ==
    /\ \E host \in DiskHosts :
          LET r == collect_disk_metrics(host, now)
          IN  /\ ~r.raised
              /\ r.value # <<>>
              /\ Room(r.value)
              /\ SetDb(insert_disk_metrics(TheDb, r.value, NoFail))
              /\ dbOp' = Call("insert_disk_metrics", r.value, NoFail)
    /\ UNCHANGED <<now, trVars>>
    /\ UNCHANGED <<smVars, cfVars>>

StoreTemperature ==
    /\ \E host \in TempHosts :
          LET r == collect_temperature_metrics(host, now)
          IN  /\ r.value # <<>>
              /\ Room(r.value)
              /\ SetDb(insert_temperature_metrics(TheDb, r.value, NoFail))
              /\ dbOp' = Call("insert_temperature_metrics", r.value, NoFail)
    /\ UNCHANGED <<now, trVars>>
    /\ UNCHANGED <<smVars, cfVars>>

RoundTripNext ==
    \/ DbConnect
    \/ StoreSystem
    \/ StoreDisk
    \/ StoreTemperature
    \/ DbAdvance

SpecRoundTrip == DbInit /\ [][RoundTripNext]_vars

C23_ShutdownNeverLost ==
    (signals > 0 /\ pc = "loop_check") => ~running

(* --------------------- claims: committed contents ---------------------- *)
InsertNames ==
    {"insert_system_metrics", "insert_disk_metrics",
     "insert_temperature_metrics"}

\* C24: in every step and for every table, a row becomes committed only as a
\* row written by the insert call of that step, and only when that call
\* returned without error; a committed row goes away only in a sweep that
\* completed.  So the committed rows are those of the successful inserts
\* minus the swept ones, and the rows of a batch whose call raised are never
\* committed by a later operation.
C24_CommittedIsSuccessfulInserts ==
    [][\A t \in TableSet :
          /\ \A r \in RowsOf(committed', t) \ RowsOf(committed, t) :
                 /\ dbOp'.name \in InsertNames
                 /\ TableOf(dbOp'.name) = t
                 /\ dbRet' = "ok"
                 /\ r.id > pending[t].seq
          /\ RowsOf(committed, t) \ RowsOf(committed', t) # {} =>
                 /\ dbOp'.name = "cleanup_old_data"
                 /\ dbRet' = "ok"]_vars

\* C25: the sweep is all-or-nothing: after a sweep that failed, every
\* committed row the connection saw before the call is still seen in its
\* table, and in no step does a committed row go away that the connection
\* no longer saw before the step (a deletion left over from a failed sweep).
C25_SweepAllOrNothing ==
    [][/\ (dbOp'.name = "cleanup_old_data" /\ dbRet' # "ok") =>
              \A t \in TableSet :
                  RowsOf(committed', t) \cap RowsOf(dbOp'.before, t)
                      \subseteq RowsOf(pending', t)
       /\ \A t \in TableSet :
              RowsOf(committed, t) \ RowsOf(committed', t)
                  \subseteq RowsOf(pending, t)]_vars

(* ------------------------ claims: prune timer -------------------------- *)
\* C26: in every step in which the scheduler invokes the sweep and the sweep
\* does not complete (it met a storage error), last_cleanup keeps its value,
\* so the sweep is due again at the cleanup check of the next tick.
C26_TimerAdvancesOnSuccessOnly ==
    [][(SweepInvoked /\ dbRet' # "ok") =>
          /\ last_cleanup' = last_cleanup
          /\ CleanupDue(now', last_cleanup')]_vars

(* --------------------- exits from the main loop ------------------------ *)
\* the steps of the loop body, all inside the try block of run()
TickPcs ==
    {"system", "disk", "temperature", "cleanup_check", "sleep_calc",
     "sleeping"}

\* where an exception can leave the loop body: an Exception is caught
\* inside _collect_and_store, so it escapes only from the cleanup check, the
\* sleep computation and the sleep; KeyboardInterrupt is no Exception and
\* escapes from every step
EscapePoints(exc) ==
    IF exc = "KeyboardInterrupt" THEN TickPcs
    ELSE {"cleanup_check", "sleep_calc", "sleeping"}

\* run(): except KeyboardInterrupt: log; except Exception: log, raise;
\* both go through the finally clause
Escape ==
    /\ \E exc \in {"KeyboardInterrupt", "Exception"} :
          /\ pc \in EscapePoints(exc)
          /\ pc' = IF exc = "KeyboardInterrupt" THEN "shutdown" ELSE "fatal"
          /\ hist' = [hist EXCEPT !.exit = exc]
    /\ UNCHANGED <<now, dbVars, running, config, start_time, last_cleanup,
                   elapsed, sleep_time, warned, tickErr, tickCount, called,
                   signals>>
    /\ UNCHANGED <<smVars, cfVars>>

\* one run of the daemon under the default configuration
ExitsInit ==
    /\ Init
    /\ config = DefaultConfig

ExitsNext ==
    \/ Construct
    \/ RunStart
    \/ SetupDatabase
    \/ EnterLoop
    \/ LoopCheck
    \/ StepSystem
    \/ StepDisk
    \/ StepTemperature
    \/ CleanupCheck
    \/ SleepCalc
    \/ Sleep
    \/ Escape
    \/ Shutdown
    \/ HandleShutdown

SpecExits == ExitsInit /\ [][ExitsNext]_vars

\* C27: whichever way the loop is left -- flag cleared, KeyboardInterrupt or
\* an escaped exception -- shutdown() has run exactly once when run() is
\* over and the connection is closed; run() ends by re-raising exactly when
\* an exception other than KeyboardInterrupt escaped, and returns normally
\* otherwise; while the loop is running shutdown() has not run and the
\* connection is open.
C27_EveryExitClosesOnce ==
    /\ hist.shutdowns <= 1
    /\ pc \in {"stopped", "raised"} =>
           /\ hist.shutdowns = 1
           /\ conn = "closed"
    /\ pc = "raised" <=> (hist.exit = "Exception" /\ hist.shutdowns = 1)
    /\ pc = "stopped" =>  hist.exit \in {"flag", "KeyboardInterrupt"}
    /\ pc \in TickPcs \cup {"loop_check"} =>
           /\ hist.exit = "none"
           /\ hist.shutdowns = 0
           /\ conn = "open"

C27_Witness ==
    /\ pc = "raised"
    /\ conn = "closed"
    /\ hist.cleanups = 1
    /\ tickCount = 2

(* ---------------------- claims: family switches ------------------------ *)
\* the family steps of a tick with the flag that enables each, its Sampler
\* call, its insert and its table
Families ==
    {[pc |-> "system", on |-> SystemEnabled,
      collect |-> "collect_system_metrics",
      insert |-> "insert_system_metrics", table |-> "system_metrics"],
     [pc |-> "disk", on |-> config.metrics.disk,
      collect |-> "collect_disk_metrics",
      insert |-> "insert_disk_metrics", table |-> "disk_metrics"],
     [pc |-> "temperature", on |-> config.metrics.temperature,
      collect |-> "collect_temperature_metrics",
      insert |-> "insert_temperature_metrics",
      table |-> "temperature_metrics"]}

\* C28: a disabled family leaves no trace in _collect_and_store: in the
\* step of a family whose flag is off no call is made and the storage is
\* left as it is; a tick never lists its Sampler call or its insert, and its
\* table holds no row, committed or pending.  The system family is sampled
\* in a tick exactly when metrics.cpu or metrics.memory is true, and when
\* its step ends without an error its insert has been called and has
\* committed a new row of system_metrics.
C28_DisabledFamilyLeavesNoTrace ==
    [][/\ \A f \in Families :
           /\ (pc = f.pc /\ ~f.on) => UNCHANGED <<dbVars, called, now>>
           /\ ~f.on =>
                  /\ Count(called', f.collect) = 0
                  /\ Count(called', f.insert) = 0
                  /\ committed'[f.table] = EmptyTable
                  /\ pending'[f.table] = EmptyTable
       /\ (pc = "system" /\ pc' # "system") =>
              /\ SystemEnabled <=> Count(called', "collect_system_metrics") = 1
              /\ (SystemEnabled /\ pc' = "disk") =>
                     /\ Count(called', "insert_system_metrics") = 1
                     /\ \E r \in RowsOf(committed', "system_metrics") :
                            r.id > pending["system_metrics"].seq]_vars

C28_Witness ==
    /\ ~SystemEnabled
    /\ pc = "sleep_calc"
    /\ tickCount = 2
    /\ ~tickErr
    /\ committed["system_metrics"] = EmptyTable
    /\ Len(committed["disk_metrics"].rows) = 4
    /\ WasCalled("insert_temperature_metrics")

(* ----------------------- claims: empty snapshots ----------------------- *)
\* C29: in the disk and the temperature step of a tick an insert is called
\* only with a list that is not empty; a step that calls no insert leaves
\* the storage as it is -- no row added, nothing committed -- and, unless
\* the Sampler call failed, goes on to the next family's step.
C29_EmptySnapshotNoStorage ==
    [][\A f \in Families :
          (f.pc # "system" /\ pc = f.pc /\ pc' # pc) =>
              /\ Count(called', f.insert) <= 1
              /\ Count(called', f.insert) = 1 =>
                     /\ dbOp'.name = f.insert
                     /\ dbOp'.arg # <<>>
              /\ Count(called', f.insert) = 0 =>
                     /\ UNCHANGED dbVars
                     /\ tickErr' = tickErr =>
                            pc' = (IF f.pc = "disk" THEN "temperature"
                                   ELSE "cleanup_check")]_vars

\* the disk snapshot was empty, nothing was stored for it and the tick went
\* on to sample and store the temperature family
C29_Witness ==
    /\ pc = "cleanup_check"
    /\ ~tickErr
    /\ config.metrics.disk
    /\ Count(called, "collect_disk_metrics") = 1
    /\ Count(called, "insert_disk_metrics") = 0
    /\ Count(called, "insert_temperature_metrics") = 1
    /\ committed["disk_metrics"] = EmptyTable

(* ---------------------- claims: disk snapshot -------------------------- *)
\* the positions of the enumerated partitions that are to be reported
ReportablePositions(partitions) ==
    {i \in 1..Len(partitions) : Reportable(partitions[i])}

\* C30: when the enumeration succeeds collect_disk_metrics returns a list
\* with one record for each enumerated partition that is no pseudo
\* filesystem, no loop device and whose usage query succeeded: the k-th
\* record carries the device, mount point and usage of the k-th such
\* partition of the enumeration, so there is no record for an excluded
\* partition and no second record for an enumerated one; all records carry
\* the timestamp taken at the start of the call.
C30_OneRecordPerPartition ==
    (samplerOp.name = "collect_disk_metrics" /\ samplerOp.host.enum_ok) =>
        LET ps   == samplerOp.host.partitions
            good == ReportablePositions(ps)
            out  == samplerOp.ret.value
        IN  /\ ~samplerOp.ret.raised
            /\ Len(out) = Cardinality(good)
            /\ \A i \in good :
                   LET k == Cardinality({j \in good : j <= i})
                   IN  out[k] = [timestamp  |-> isoformat(now),
                                 device     |-> ps[i].device,
                                 mountpoint |-> ps[i].mountpoint,
                                 total      |-> ps[i].total,
                                 percent    |-> ps[i].percent]

\* a loop device is left out and the partition enumerated after it is
\* reported
C30_Witness ==
    /\ samplerOp.name = "collect_disk_metrics"
    /\ samplerOp.host.enum_ok
    /\ samplerOp.host.partitions = <<Loop0, SdaOk>>
    /\ Len(samplerOp.ret.value) = 1
    /\ samplerOp.ret.value[1].device = "/dev/sda1"

(* ------------------------ claims: GPU records -------------------------- *)
\* C31: after collect_gpu_metrics on an initialised collector, every GPU of
\* the host whose mandatory queries succeed has a record in the result, and
\* in that record each optional field is absent when its query failed and
\* carries the queried value (power converted to watts) when it succeeded.
C31_OptionalFailuresKeepRecord ==
    (samplerOp.name = "collect_gpu_metrics" /\ nvidia_initialized) =>
        LET gpus == samplerOp.host.gpus
            out  == samplerOp.ret.value
        IN  \A i \in 1..Len(gpus) :
                gpus[i].mandatory_ok =>
                    \E k \in 1..Len(out) :
                        /\ out[k].gpu_index = i - 1
                        /\ out[k].gpu_utilization = gpus[i].utilization
                        /\ \A f \in {"temperature", "fan_speed"} :
                               out[k][f] = (IF gpus[i][f].ok
                                            THEN Some(gpus[i][f].v) ELSE None)
                        /\ \A f \in {"power_draw", "power_limit"} :
                               out[k][f] =
                                   (IF gpus[i][f].ok
                                    THEN Some(gpus[i][f].v \div MilliwattsPerWatt)
                                    ELSE None)

(* ------------------------ claims: row identity ------------------------- *)
Ids(view, t) == {view[t].rows[i].id : i \in 1..Len(view[t].rows)}

\* the ids of the rows of a table increase in list order
IdsIncrease(view, t) ==
    \A i, j \in 1..Len(view[t].rows) :
        i < j => view[t].rows[i].id < view[t].rows[j].id

\* C32 as stated: in every step the largest id assigned so far in a table
\* never goes down, not after a failed insert either, so that a row
\* inserted later gets an id above every id assigned before; ids increase
\* in list order.
C32_AsStated ==
    [][\A t \in TableSet :
          /\ pending'[t].seq >= pending[t].seq
          /\ \A i \in Ids(pending', t) \ (Ids(pending, t) \cup Ids(committed, t)) :
                 i > pending[t].seq
          /\ IdsIncrease(pending', t)]_vars

\* C32 amended: the same for the rows that are or were committed and for
\* those the connection still holds: the committed sequence never goes
\* down, across sweeps, close and connect; a row that becomes committed has
\* an id above every id committed before; a row written by an insert has an
\* id above every id committed before and every id the connection holds; ids
\* increase in list order.  An id freed by a sweep is thus never used again.
C32_CommittedIdsMonotonic ==
    [][\A t \in TableSet :
          (pending'[t] # pending[t] \/ committed'[t] # committed[t]) =>
          /\ committed'[t].seq >= committed[t].seq
          /\ \A i \in Ids(committed', t) \ Ids(committed, t) :
                 i > committed[t].seq
          /\ \A i \in Ids(pending', t) \ (Ids(pending, t) \cup Ids(committed, t)) :
                 /\ i > committed[t].seq
                 /\ \A j \in Ids(pending, t) : i > j
          /\ \A i \in Ids(committed', t) : i <= committed'[t].seq
          /\ IdsIncrease(pending', t)
          /\ IdsIncrease(committed', t)]_vars

\* a sweep emptied system_metrics and the insert that followed gave its row
\* the id after the swept ones
C32_Witness ==
    /\ dbOp.name = "insert_system_metrics"
    /\ dbRet = "ok"
    /\ dbOp.before["system_metrics"].rows = <<>>
    /\ committed["system_metrics"].seq = 2
    /\ Ids(committed, "system_metrics") = {2}

(* ------------------------- claims: tick spacing ------------------------ *)
\* C33: in every step that starts a tick after an earlier one, the new tick
\* starts max(interval, e) after the start of the earlier tick, e being the
\* elapsed work time of the earlier tick: never less than the interval, and
\* just e after an overrun, whatever the ticks before did; the step starts
\* one tick, so no tick is repeated to catch up.
C33_TickSpacing ==
    [][(pc = "loop_check" /\ pc' = "system" /\ tickCount >= 1) =>
          /\ start_time' - start_time
                 = Max(config.collection_interval, elapsed)
          /\ start_time' - start_time >= config.collection_interval
          /\ elapsed >= 0
          /\ tickCount' = tickCount + 1]_vars

\* the second tick starts right after a first tick that overran the
\* interval, and then takes a whole interval itself
C33_Witness ==
    /\ pc = "loop_check"
    /\ tickCount = 2
    /\ hist.warnings = 1
    /\ ~warned
    /\ start_time > hist.loopStart + config.collection_interval
    /\ now = start_time + config.collection_interval


(* ------------------- Config instances and the defaults ------------------ *)
\* what a user file sets, key by key
Override ==
    [paths    |-> [data_dir |-> "/srv/data"],
     database |-> [filename |-> "other.db"],
     logging  |-> [level |-> "DEBUG"],
     metrics  |-> [disk |-> FALSE],
     collection_interval |-> LongInterval]

\* the user files: every choice of the keys, the empty file included
UserFiles == {[k \in keys |-> Override[k]] : keys \in SUBSET DOMAIN Override}

\* Config(): no file
ConfigDefault ==
    /\ heap' = Config_init(heap, None).heap
    /\ instance' = Config_init(heap, None).cfg
    /\ UNCHANGED <<now, dbVars, trVars, smVars>>

\* Config(config_path) with a file at config_path
ConfigFromFile ==
    /\ \E user_config \in UserFiles :
          /\ heap' = Config_init(heap, Some(user_config)).heap
          /\ instance' = Config_init(heap, Some(user_config)).cfg
    /\ UNCHANGED <<now, dbVars, trVars, smVars>>

ConfigNext ==
    \/ ConfigDefault
    \/ ConfigFromFile

SpecConfig == ExitsInit /\ [][ConfigNext]_vars

\* what Config() yields in a process that constructed no Config before
DocumentedDefaults ==
    ConfigValue(Config_init(ClassBodyHeap, None).cfg.top,
                Config_init(ClassBodyHeap, None).heap)

\* C34: Config instances are independent of each other and of the class
\* defaults: whatever Configs were constructed before, from whatever user
\* files, a Config constructed with no file holds exactly the default values.
C34_InstancesIndependent ==
    (instance.built /\ instance.path = None)
        => ConfigValue(instance.top, heap) = DocumentedDefaults

====
